---- MODULE Spec2Model ----
(***************************************************************************)
(* The thumbnail certification pipeline of src/main.rs: one run of main,   *)
(* from loading the source image to the timing report, with the Thumbnail  *)
(* circuit and the constraint-system, proof and image collaborators it     *)
(* drives.                                                                 *)
(***************************************************************************)
EXTENDS Integers, Sequences, FiniteSets, TLC

(***************************************************************************)
(* Program constants.                                                      *)
(***************************************************************************)
\* let n = 10u32; // ratio
n == 10
\* let p = 5u32; // position in matrix
p_main == 5
\* pub inps: [Option<F>; 100]
Capacity == 100
\* a channel byte ranges over 0 .. ByteBase - 1
ByteBase == 256
\* byte width of an Fr value (256-bit representation)
FrBytes == 32

(***************************************************************************)
(* Bounds of the model.                                                    *)
(***************************************************************************)
\* the source image is at most MaxBlocks x MaxBlocks blocks
MaxBlocks == 2
\* trailing rows/columns beyond the last whole block (0 or Remainder)
Remainder == 3
\* source images are drawn from the family colour(x, y) = (ca*x + cb*y) % NumColours
MaxCoef == 1
NumColours == 3
\* SpecSel draws the selection index from (p_main + SelStep * k) % (n * n), k in 0 .. MaxSel
MaxSel == 9
SelStep == 37

(***************************************************************************)
(* Option, pixels and field elements.                                      *)
(***************************************************************************)
None == <<>>
Some(v) == <<v>>
Unwrap(o) == o[1]

\* An Fr value below 2^32, as two 16-bit little-endian limbs (the higher
\* limbs of the 256-bit representation are zero for every value used here).
FrZero == <<0, 0>>
FrOne == <<1, 0>>

\* Rgba([0, 0, 0, 0]): the pixel of a fresh ImageBuffer
ZeroPixel == <<0, 0, 0, 0>>

\* to_rgba of a decoded JPEG pixel: alpha is opaque
Palette(c) == <<(c % 2) * 255, ((c \div 2) % 2) * 255, ((c \div 4) % 2) * 255, 255>>

\* Faulty variant of as_bytes: the slice is one byte short, the alpha byte is lost.
as_bytes_short(pixel) == SubSeq(pixel, 1, 3)

\* as_bytes(&pixel): the channel bytes in memory order
as_bytes(pixel) == pixel

ByteAt(bytes, i) == IF i <= Len(bytes) THEN bytes[i] ELSE 0

\* Fr::from_random_bytes: zero-pad the bytes, read them little-endian;
\* None when the bytes do not fit the representation.
from_random_bytes(bytes) ==
    IF Len(bytes) > FrBytes THEN None
    ELSE Some(<<ByteAt(bytes, 1) + ByteBase * ByteAt(bytes, 2),
                ByteAt(bytes, 3) + ByteBase * ByteAt(bytes, 4)>>)

\* a * b in Fr, for the products the circuit forms: one factor is 1 or 0
\* (no other product is defined here)
FrMul(a, b) ==
    CASE b = FrOne -> a
      [] a = FrOne -> b
      [] a = FrZero \/ b = FrZero -> FrZero

(***************************************************************************)
(* The image collaborator.                                                 *)
(***************************************************************************)
Image(w, h, ca, cb) ==
    [width |-> w, height |-> h,
     pixels |-> [xy \in (0 .. w - 1) \X (0 .. h - 1) |->
                    Palette((ca * xy[1] + cb * xy[2]) % NumColours)]]

get_pixel(image, px, py) == image.pixels[<<px, py>>]

\* ImageBuffer::new(width, height)
ImageBuffer_new(w, h) ==
    [width |-> w, height |-> h,
     pixels |-> [xy \in (0 .. w - 1) \X (0 .. h - 1) |-> ZeroPixel]]

put_pixel(image, px, py, pixel) == [image EXCEPT !.pixels[<<px, py>>] = pixel]

\* out_file.save("test.png"): RGBA8 PNG keeps every channel byte
save(image) == image

(***************************************************************************)
(* The constraint-system collaborator (ProveAssignment, VerifyAssignment). *)
(* Variables are created by the calls of instance 0; the calls of a later  *)
(* instance add that instance's value to the variable at the same position.*)
(***************************************************************************)
ProveAssignment_default ==
    [kind |-> "prove", num_inputs |-> 0, num_aux |-> 0, constraints |-> <<>>,
     input_assignment |-> <<>>, aux_assignment |-> <<>>, log |-> <<>>]

VerifyAssignment_default ==
    [kind |-> "verify", num_inputs |-> 0, num_aux |-> 0, constraints |-> <<>>,
     input_assignment |-> <<>>, aux_assignment |-> <<>>, log |-> <<>>]

Ok(cs) == [cs |-> cs, err |-> "none"]
Err(cs, e) == [cs |-> cs, err |-> e]

\* cs.alloc_input(|| .., f, index); cur is the position of the call among the
\* alloc_input calls of this generate_constraints call (0-based)
alloc_input(cs, value, index, cur) ==
    IF cs.kind = "verify"
    THEN Ok(IF index = 0
            THEN [cs EXCEPT !.num_inputs = @ + 1, !.log = Append(@, "input")]
            ELSE cs)
    ELSE IF value = None THEN Err(cs, "AssignmentMissing")
    ELSE Ok(IF index = 0
            THEN [cs EXCEPT !.num_inputs = @ + 1,
                            !.input_assignment = Append(@, <<Unwrap(value)>>),
                            !.log = Append(@, "input")]
            ELSE [cs EXCEPT !.input_assignment[cur + 1] = Append(@, Unwrap(value))])

\* cs.alloc(|| .., f, index)
alloc(cs, value, index, cur) ==
    IF cs.kind = "verify"
    THEN Ok(IF index = 0
            THEN [cs EXCEPT !.num_aux = @ + 1, !.log = Append(@, "aux")]
            ELSE cs)
    ELSE IF value = None THEN Err(cs, "AssignmentMissing")
    ELSE Ok(IF index = 0
            THEN [cs EXCEPT !.num_aux = @ + 1,
                            !.aux_assignment = Append(@, <<Unwrap(value)>>),
                            !.log = Append(@, "aux")]
            ELSE [cs EXCEPT !.aux_assignment[cur + 1] = Append(@, Unwrap(value))])

\* cs.enforce(|| .., a, b, c): the constraint a * b == c, each side one variable
enforce(cs, a, b, c) ==
    [cs EXCEPT !.constraints = Append(@, [a |-> a, b |-> b, c |-> c]),
               !.log = Append(@, "constraint")]

\* CS::one()
CS_one == <<"Input", 0>>

(***************************************************************************)
(* Thumbnail::generate_constraints.                                        *)
(***************************************************************************)
Thumbnail(inps, out, sel) == [inps |-> inps, out |-> out, p |-> sel]

\* for i in &self.inps { var_inps.push(cs.alloc(.., index)?) }
RECURSIVE AllocInps(_, _, _, _)
AllocInps(r, inps, index, i) ==
    IF r.err # "none" \/ i > Len(inps) THEN r
    ELSE AllocInps(alloc(r.cs, inps[i], index, i - 1), inps, index, i + 1)

\* Faulty variant of EnforceSelected: the constraint is emitted by every call.
EnforceEvery(cs, self, index) == enforce(cs, <<"Aux", self.p>>, CS_one, <<"Input", 1>>)

\* if index == 0 { cs.enforce(.., var_inps[self.p], CS::one(), var_o) }
EnforceSelected(cs, self, index) ==
    IF index = 0 THEN enforce(cs, <<"Aux", self.p>>, CS_one, <<"Input", 1>>) ELSE cs

\* Faulty variant of generate_constraints: the output value is unwrapped before it is
\* handed to the constraint system, so an absent value fails in every mode.
generate_constraints_eager(self, cs, index) ==
    LET r1 == alloc_input(cs, Some(FrOne), index, 0)
        r2 == IF r1.err # "none" THEN r1 ELSE AllocInps(r1, self.inps, index, 1)
        r3 == IF r2.err # "none" THEN r2
              ELSE IF self.out = None THEN Err(r2.cs, "AssignmentMissing")
              ELSE alloc_input(r2.cs, self.out, index, 1)
    IN  IF r3.err # "none" THEN r3
        ELSE IF index = 0 /\ self.p >= Len(self.inps) THEN Err(r3.cs, "IndexOutOfBounds")
        ELSE Ok(EnforceSelected(r3.cs, self, index))

generate_constraints(self, cs, index) ==
    LET r1 == alloc_input(cs, Some(FrOne), index, 0)
        r2 == IF r1.err # "none" THEN r1 ELSE AllocInps(r1, self.inps, index, 1)
        r3 == IF r2.err # "none" THEN r2 ELSE alloc_input(r2.cs, self.out, index, 1)
    IN  IF r3.err # "none" THEN r3
        ELSE IF index = 0 /\ self.p >= Len(self.inps) THEN Err(r3.cs, "IndexOutOfBounds")
        ELSE Ok(EnforceSelected(r3.cs, self, index))

(***************************************************************************)
(* The proof collaborator.                                                 *)
(***************************************************************************)
RECURSIVE next_power_of_two_from(_, _)
next_power_of_two_from(v, k) == IF k >= v THEN k ELSE next_power_of_two_from(v, 2 * k)
next_power_of_two(v) == next_power_of_two_from(v, 1)

Instances(pa) == IF pa.num_inputs = 0 THEN 0 ELSE Len(pa.input_assignment[1])

Value(pa, var, k) ==
    IF var[1] = "Input" THEN pa.input_assignment[var[2] + 1][k]
    ELSE pa.aux_assignment[var[2] + 1][k]

Satisfied(pa) ==
    \A c \in 1 .. Len(pa.constraints) : \A k \in 1 .. Instances(pa) :
        FrMul(Value(pa, pa.constraints[c].a, k), Value(pa, pa.constraints[c].b, k))
            = Value(pa, pa.constraints[c].c, k)

\* create_random_proof(&prover_pa, &kzg10_ck, rng): the proof binds the
\* statement, the public values of every instance, and whether the witness
\* satisfies the constraints in every instance
create_random_proof(pa) ==
    [num_inputs |-> pa.num_inputs, num_aux |-> pa.num_aux,
     constraints |-> pa.constraints, public |-> pa.input_assignment,
     satisfied |-> Satisfied(pa)]

\* verify_proof(&verifier_pa, &kzg10_vk, &proof, &io): Ok(true) exactly when
\* the proof is of a satisfied statement of the verifier's shape whose public
\* values are io
verify_proof(pa, prf, pio) ==
    /\ prf.satisfied
    /\ pa.num_inputs = prf.num_inputs
    /\ pa.num_aux = prf.num_aux
    /\ pa.constraints = prf.constraints
    /\ pio = prf.public

(***************************************************************************)
(* The state of one run of main.                                           *)
(***************************************************************************)
VARIABLES
    pc,           \* position of main
    demo,         \* the decoded content of "demo.jpg"
    p,            \* the selection index
    img,          \* None, or Some(the loaded source image)
    new_x, new_y, \* block grid dimensions
    kzg10,        \* the setup: None, or [degree |-> ..]
    prover_pa,    \* the prover statement
    out_file,     \* the in-memory thumbnail buffer
    m_x, m_y,     \* the block loop counters
    proof,        \* None, or Some(proof)
    test_png,     \* the content of "test.png" in storage: None, or Some(image)
    verifier_pa,  \* the verifier statement
    output_fr,    \* the output group under construction
    io,           \* the public input vector handed to verify_proof
    verified,     \* "none", or the outcome of verify_proof: "true", "false", "error"
    err,          \* "none", or what aborted the run
    trace,        \* history: the stages entered, in order
    visited,      \* history: <<m_x, m_y, index>> of each generate_constraints call of the prover loop
    emitted,      \* history: the instance index of each call that added a constraint
    tampered      \* history: "none", "buffer" or "storage" (the tamper scenarios)

vars == <<pc, demo, p, img, new_x, new_y, kzg10, prover_pa, out_file, m_x, m_y,
          proof, test_png, verifier_pa, output_fr, io, verified, err, trace,
          visited, emitted, tampered>>

Sources(rems) ==
    { Image(n * bx + rx, n * by + ry, ca, cb) :
        <<bx, by, rx, ry, ca, cb>> \in
            (1 .. MaxBlocks) \X (1 .. MaxBlocks) \X rems \X rems
                \X (0 .. MaxCoef) \X (0 .. MaxCoef) }

InitWith(sources, sels) ==
    /\ pc = "start"
    /\ demo \in sources
    /\ p \in sels
    /\ img = None
    /\ new_x = 0 /\ new_y = 0
    /\ kzg10 = None
    /\ prover_pa = ProveAssignment_default
    /\ out_file = ImageBuffer_new(0, 0)
    /\ m_x = 0 /\ m_y = 0
    /\ proof = None
    /\ test_png = None
    /\ verifier_pa = VerifyAssignment_default
    /\ output_fr = <<>>
    /\ io = <<>>
    /\ verified = "none"
    /\ err = "none"
    /\ trace = <<>>
    /\ visited = <<>>
    /\ emitted = <<>>
    /\ tampered = "none"

\* main as written: p = 5
Init == InitWith(Sources({0, Remainder}), {p_main})

\* Faulty variant of Abort: the error is recorded but main is not stopped.
AbortIgnored(e) == /\ pc' = pc /\ err' = e

\* a failed unwrap() or assert!: the run ends at once
Abort(e) == /\ pc' = "aborted" /\ err' = e

(***************************************************************************)
(* The pieces of main's loops.                                             *)
(***************************************************************************)
\* Faulty variant of InstanceIndex: the stride is applied to the wrong counter.
InstanceIndexSwapped(mx, my, ny) == my * ny + mx

\* (m_x * new_y + m_y) as usize
InstanceIndex(mx, my, ny) == mx * ny + my

\* the loop header pair "for m_x in 0..new_x { for m_y in 0..new_y": the
\* counters of the iteration after (mx, my)
NextBlock(mx, my, ny) == IF my + 1 < ny THEN <<mx, my + 1>> ELSE <<mx + 1, 0>>

\* Faulty variant of BlockPixels: slot j * n + i instead of i * n + j.
BlockPixelsTransposed(image, mx, my) ==
    [t \in 1 .. Capacity |->
        IF t - 1 < n * n
        THEN from_random_bytes(
                 as_bytes(get_pixel(image, mx * n + ((t - 1) % n), my * n + ((t - 1) \div n))))
        ELSE Some(FrZero)]

\* tmp_pixels after the i, j loops of block (mx, my): slot i * n + j holds the
\* encoding of the pixel at (mx * n + i, my * n + j); the other slots keep
\* Some(Fr::zero())
BlockPixels(image, mx, my) ==
    [t \in 1 .. Capacity |->
        IF t - 1 < n * n
        THEN from_random_bytes(
                 as_bytes(get_pixel(image, mx * n + ((t - 1) \div n), my * n + ((t - 1) % n))))
        ELSE Some(FrZero)]

\* Faulty variant of WriteSelected: the test is j * n + i == p.
WriteSelectedTransposed(buf, image, mx, my, sel) ==
    IF sel < n * n
    THEN put_pixel(buf, mx, my, get_pixel(image, mx * n + (sel % n), my * n + (sel \div n)))
    ELSE buf

\* if i * n + j == p { out_file.put_pixel(m_x, m_y, pixel) }
WriteSelected(buf, image, mx, my, sel) ==
    IF sel < n * n
    THEN put_pixel(buf, mx, my, get_pixel(image, mx * n + (sel \div n), my * n + (sel % n)))
    ELSE buf

\* Faulty variant of TmpOut: the slot after p.
TmpOutNext(tmp_pixels, sel) == tmp_pixels[((sel + 1) % Capacity) + 1]

\* let tmp_out = tmp_pixels[p as usize].clone()
TmpOut(tmp_pixels, sel) == tmp_pixels[sel + 1]

\* Faulty variant of ThumbnailRead: the pixel is read back from the saved file.
ThumbnailReadStored(buf, stored, mx, my) == get_pixel(Unwrap(stored), mx, my)

\* let pixel = out_file.get_pixel(m_x, m_y).to_rgba(): the pixel the public
\* input loop reads; stored is the content of "test.png", which it does not read
ThumbnailRead(buf, stored, mx, my) == get_pixel(buf, mx, my)

\* let one = vec![Fr::one(); (new_x * new_y) as usize]; io.push(one); io.push(output_fr)
BuildIo(count, ofr) == <<[k \in 1 .. count |-> FrOne], ofr>>

\* Faulty variant of AfterVerify: only a backend error stops main.
AfterVerifyLenient(outcome) == IF outcome = "error" THEN "aborted" ELSE "Verified"

\* assert!(verify_proof(..).unwrap()): where main goes on each outcome
AfterVerify(outcome) == IF outcome = "true" THEN "Verified" ELSE "aborted"

(***************************************************************************)
(* The steps of main.                                                      *)
(***************************************************************************)
\* let img = image::open("demo.jpg").unwrap(); .. new_x = x / n; new_y = y / n
Load ==
    /\ pc = "start"
    /\ \E ok \in BOOLEAN :
        IF ok
        THEN /\ img' = Some(demo)
             /\ new_x' = demo.width \div n
             /\ new_y' = demo.height \div n
             /\ pc' = "Loaded"
             /\ trace' = Append(trace, "Loaded")
             /\ err' = err
        ELSE /\ Abort("ImageDecodeError")
             /\ UNCHANGED <<img, new_x, new_y, trace>>
    /\ UNCHANGED <<demo, p, kzg10, prover_pa, out_file, m_x, m_y, proof, test_png,
                   verifier_pa, output_fr, io, verified, visited, emitted, tampered>>

\* KZG10::setup(degree, ..).unwrap(); KZG10::trim(..).unwrap();
\* prover_pa = default; out_file = ImageBuffer::new(new_x, new_y)
Setup ==
    /\ pc = "Loaded"
    /\ \E ok \in BOOLEAN :
        IF ok
        THEN /\ kzg10' = Some([degree |-> next_power_of_two(new_x * new_y)])
             /\ prover_pa' = ProveAssignment_default
             /\ out_file' = ImageBuffer_new(new_x, new_y)
             /\ m_x' = 0 /\ m_y' = 0
             /\ pc' = IF new_x = 0 \/ new_y = 0 THEN "ProverStatementBuilt" ELSE "ProverLoop"
             /\ trace' = IF new_x = 0 \/ new_y = 0
                         THEN trace \o <<"SetupDone", "ProverStatementBuilt">>
                         ELSE Append(trace, "SetupDone")
             /\ err' = err
        ELSE /\ Abort("SetupError")
             /\ UNCHANGED <<kzg10, prover_pa, out_file, m_x, m_y, trace>>
    /\ UNCHANGED <<demo, p, img, new_x, new_y, proof, test_png, verifier_pa,
                   output_fr, io, verified, visited, emitted, tampered>>

\* one iteration of the block loop of the prover (lines 105-128)
ProverBlock ==
    /\ pc = "ProverLoop"
    /\ LET tmp_pixels == BlockPixels(Unwrap(img), m_x, m_y)
           index == InstanceIndex(m_x, m_y, new_y)
           nxt == NextBlock(m_x, m_y, new_y)
           last == nxt[1] >= new_x
       IN  IF \E t \in 1 .. Capacity : tmp_pixels[t] = None
           THEN /\ Abort("EncodingError")
                /\ UNCHANGED <<prover_pa, out_file, m_x, m_y, trace, visited, emitted>>
           ELSE LET r == generate_constraints(
                             Thumbnail(tmp_pixels, TmpOut(tmp_pixels, p), p), prover_pa, index)
                IN  IF r.err # "none"
                    THEN /\ Abort(r.err)
                         /\ UNCHANGED <<prover_pa, out_file, m_x, m_y, trace, visited, emitted>>
                    ELSE /\ out_file' = WriteSelected(out_file, Unwrap(img), m_x, m_y, p)
                         /\ prover_pa' = r.cs
                         /\ visited' = Append(visited, <<m_x, m_y, index>>)
                         /\ emitted' = IF Len(r.cs.constraints) > Len(prover_pa.constraints)
                                       THEN Append(emitted, index) ELSE emitted
                         /\ m_x' = nxt[1] /\ m_y' = nxt[2]
                         /\ pc' = IF last THEN "ProverStatementBuilt" ELSE "ProverLoop"
                         /\ trace' = IF last THEN Append(trace, "ProverStatementBuilt") ELSE trace
                         /\ err' = err
    /\ UNCHANGED <<demo, p, img, new_x, new_y, kzg10, proof, test_png, verifier_pa,
                   output_fr, io, verified, tampered>>

\* let proof = create_random_proof(&prover_pa, &kzg10_ck, &mut rng).unwrap()
Prove ==
    /\ pc = "ProverStatementBuilt"
    /\ \E ok \in BOOLEAN :
        IF ok
        THEN /\ proof' = Some(create_random_proof(prover_pa))
             /\ pc' = "Proved"
             /\ trace' = Append(trace, "Proved")
             /\ err' = err
        ELSE /\ Abort("ProofGenerationError")
             /\ UNCHANGED <<proof, trace>>
    /\ UNCHANGED <<demo, p, img, new_x, new_y, kzg10, prover_pa, out_file, m_x, m_y,
                   test_png, verifier_pa, output_fr, io, verified, visited, emitted,
                   tampered>>

\* out_file.save("test.png").unwrap()
Save ==
    /\ pc = "Proved"
    /\ \E ok \in BOOLEAN :
        IF ok
        THEN /\ test_png' = Some(save(out_file))
             /\ pc' = "Saved"
             /\ trace' = Append(trace, "Saved")
             /\ err' = err
        ELSE /\ Abort("IoError")
             /\ UNCHANGED <<test_png, trace>>
    /\ UNCHANGED <<demo, p, img, new_x, new_y, kzg10, prover_pa, out_file, m_x, m_y,
                   proof, verifier_pa, output_fr, io, verified, visited, emitted,
                   tampered>>

\* verify_c = Thumbnail { inps: [None; 100], out: None, p };
\* verify_c.generate_constraints(&mut verifier_pa, 0).unwrap(); io = vec![]; output_fr = vec![]
BuildVerifier ==
    /\ pc = "Saved"
    /\ LET verify_c == Thumbnail([t \in 1 .. Capacity |-> None], None, p)
           r == generate_constraints(verify_c, VerifyAssignment_default, 0)
       IN  IF r.err # "none"
           THEN /\ Abort(r.err)
                /\ UNCHANGED <<verifier_pa, output_fr, m_x, m_y, trace>>
           ELSE /\ verifier_pa' = r.cs
                /\ output_fr' = <<>>
                /\ m_x' = 0 /\ m_y' = 0
                /\ pc' = IF new_x = 0 \/ new_y = 0 THEN "IoBuilt" ELSE "IoLoop"
                /\ trace' = Append(trace, "VerifierStatementBuilt")
                /\ err' = err
    /\ UNCHANGED <<demo, p, img, new_x, new_y, kzg10, prover_pa, out_file, proof,
                   test_png, io, verified, visited, emitted, tampered>>

\* one iteration of the public input loop (lines 161-165)
IoPixel ==
    /\ pc = "IoLoop"
    /\ LET fr == from_random_bytes(as_bytes(ThumbnailRead(out_file, test_png, m_x, m_y)))
           nxt == NextBlock(m_x, m_y, new_y)
       IN  IF fr = None
           THEN /\ Abort("EncodingError")
                /\ UNCHANGED <<output_fr, m_x, m_y>>
           ELSE /\ output_fr' = Append(output_fr, Unwrap(fr))
                /\ m_x' = nxt[1] /\ m_y' = nxt[2]
                /\ pc' = IF nxt[1] >= new_x THEN "IoBuilt" ELSE "IoLoop"
                /\ err' = err
    /\ UNCHANGED <<demo, p, img, new_x, new_y, kzg10, prover_pa, out_file, proof,
                   test_png, verifier_pa, io, verified, trace, visited, emitted,
                   tampered>>

\* io.push(one); io.push(output_fr);
\* assert!(verify_proof(&verifier_pa, &kzg10_vk, &proof, &io).unwrap())
Verify ==
    /\ pc = "IoBuilt"
    /\ io' = BuildIo(new_x * new_y, output_fr)
    /\ \E ok \in BOOLEAN :
        LET outcome == IF ~ok THEN "error"
                       ELSE IF verify_proof(verifier_pa, Unwrap(proof), io') THEN "true"
                       ELSE "false"
        IN  /\ verified' = outcome
            /\ pc' = AfterVerify(outcome)
            /\ err' = IF AfterVerify(outcome) # "aborted" THEN err
                      ELSE IF outcome = "error" THEN "VerificationError"
                      ELSE "AssertionFailed"
            /\ trace' = IF AfterVerify(outcome) # "aborted" THEN Append(trace, "Verified")
                        ELSE trace
    /\ UNCHANGED <<demo, p, img, new_x, new_y, kzg10, prover_pa, out_file, m_x, m_y,
                   proof, test_png, verifier_pa, output_fr, visited, emitted, tampered>>

\* the timing report (lines 175-187)
Report ==
    /\ pc = "Verified"
    /\ pc' = "done"
    /\ UNCHANGED <<demo, p, img, new_x, new_y, kzg10, prover_pa, out_file, m_x, m_y,
                   proof, test_png, verifier_pa, output_fr, io, verified, err, trace,
                   visited, emitted, tampered>>

Next ==
    \/ Load
    \/ Setup
    \/ ProverBlock
    \/ Prove
    \/ Save
    \/ BuildVerifier
    \/ IoPixel
    \/ Verify
    \/ Report

Spec == Init /\ [][Next]_vars

(***************************************************************************)
(* Selection indices other than main's: the same run, on sources of whole  *)
(* blocks, for several p in 0 .. n * n - 1.                                *)
(***************************************************************************)
Selections == {(p_main + SelStep * k) % (n * n) : k \in 0 .. MaxSel}

InitSel == InitWith(Sources({0}), Selections)

SpecSel == InitSel /\ [][Next]_vars

(***************************************************************************)
(* The tamper scenarios: after the proof is made and the thumbnail saved,  *)
(* and before the public inputs are built, one pixel of the thumbnail      *)
(* buffer, or one pixel of the saved file, is changed to another value.    *)
(***************************************************************************)
TamperValues ==
    {Palette(c) : c \in 0 .. NumColours - 1} \cup {[Palette(0) EXCEPT ![4] = 0]}

TamperThumbnail ==
    /\ pc = "Saved"
    /\ tampered = "none"
    /\ \E bx \in 0 .. new_x - 1, by \in 0 .. new_y - 1 :
        \E v \in TamperValues \ {get_pixel(out_file, bx, by)} :
            out_file' = put_pixel(out_file, bx, by, v)
    /\ tampered' = "buffer"
    /\ UNCHANGED <<pc, demo, p, img, new_x, new_y, kzg10, prover_pa, m_x, m_y, proof,
                   test_png, verifier_pa, output_fr, io, verified, err, trace,
                   visited, emitted>>

TamperStorage ==
    /\ pc = "Saved"
    /\ tampered = "none"
    /\ \E bx \in 0 .. new_x - 1, by \in 0 .. new_y - 1 :
        \E v \in TamperValues \ {get_pixel(Unwrap(test_png), bx, by)} :
            test_png' = Some(put_pixel(Unwrap(test_png), bx, by, v))
    /\ tampered' = "storage"
    /\ UNCHANGED <<pc, demo, p, img, new_x, new_y, kzg10, prover_pa, out_file, m_x, m_y,
                   proof, verifier_pa, output_fr, io, verified, err, trace, visited,
                   emitted>>

NextTamper ==
    \/ Next
    \/ TamperThumbnail
    \/ TamperStorage

InitTamper == InitWith(Sources({0}), {p_main})

SpecTamper == InitTamper /\ [][NextTamper]_vars

(***************************************************************************)
(* Vocabulary of the properties.                                           *)
(***************************************************************************)
Range(s) == {s[k] : k \in 1 .. Len(s)}

Entered(stage) == stage \in Range(trace)

IsPrefix(s, t) == Len(s) <= Len(t) /\ \A k \in 1 .. Len(s) : s[k] = t[k]

Stages ==
    <<"Loaded", "SetupDone", "ProverStatementBuilt", "Proved", "Saved",
      "VerifierStatementBuilt", "Verified">>

BlockCount == new_x * new_y

Blocks == (0 .. new_x - 1) \X (0 .. new_y - 1)

\* the field element a pixel is encoded to
Encode(pixel) == Unwrap(from_random_bytes(as_bytes(pixel)))

WholeBlocks == demo.width % n = 0 /\ demo.height % n = 0

\* the public output value and the witness of slot sel of the k-th instance
ProverOut(k) == prover_pa.input_assignment[2][k]
ProverInp(sel, k) == prover_pa.aux_assignment[sel + 1][k]

\* the source pixel at block-local position (i, j) of block (mx, my)
BlockLocal(mx, my, i, j) == get_pixel(Unwrap(img), mx * n + i, my * n + j)

\* the thumbnail the block loop writes for selection index sel, and the output
\* group the public input loop builds from a thumbnail
RECURSIVE ThumbnailFrom(_, _, _, _, _, _)
ThumbnailFrom(buf, image, mx, my, ny, sel) ==
    IF mx >= buf.width THEN buf
    ELSE LET nxt == NextBlock(mx, my, ny)
         IN  ThumbnailFrom(WriteSelected(buf, image, mx, my, sel), image, nxt[1], nxt[2], ny, sel)

HonestThumbnail(sel) ==
    ThumbnailFrom(ImageBuffer_new(new_x, new_y), Unwrap(img), 0, 0, new_y, sel)

RECURSIVE OutputGroupFrom(_, _, _, _, _)
OutputGroupFrom(buf, mx, my, ny, acc) ==
    IF mx >= buf.width THEN acc
    ELSE LET nxt == NextBlock(mx, my, ny)
         IN  OutputGroupFrom(buf, nxt[1], nxt[2], ny,
                             Append(acc, Encode(ThumbnailRead(buf, test_png, mx, my))))

OutputGroup(buf) == OutputGroupFrom(buf, 0, 0, new_y, <<>>)

\* the proof of this run checked against the thumbnail of selection index sel
CrossVerify(sel) ==
    verify_proof(verifier_pa, Unwrap(proof), BuildIo(BlockCount, OutputGroup(HonestThumbnail(sel))))

SamePixels(sel1, sel2) ==
    \A b \in Blocks :
        BlockLocal(b[1], b[2], sel1 \div n, sel1 % n) = BlockLocal(b[1], b[2], sel2 \div n, sel2 % n)

(***************************************************************************)
(* C1. Round-trip honesty: on a source of whole blocks, every instance's   *)
(* public output equals its witness of slot p, the output group of the     *)
(* public input vector holds that same value at the instance's position,   *)
(* and the verification never returns false (the run that reaches the      *)
(* verification without a backend error gets true).                        *)
(***************************************************************************)
C1_RoundTripHonest ==
    WholeBlocks =>
        /\ \A k \in 1 .. Len(visited) : ProverOut(k) = ProverInp(p, k)
        /\ io # <<>> =>
            /\ Len(io[2]) = BlockCount
            /\ \A k \in 1 .. BlockCount : io[2][k] = ProverInp(p, k)
        /\ verified \in {"none", "true", "error"}
        /\ pc \in {"Verified", "done"} => verified = "true"

C1_Witness ==
    /\ WholeBlocks
    /\ pc = "done"
    /\ verified = "true"
    /\ BlockCount = 4
    /\ \E j, k \in 1 .. BlockCount : io[2][j] # io[2][k]

(***************************************************************************)
(* C2. Tamper detection: when one pixel of the thumbnail the public inputs *)
(* are built from has been changed to another value, with the setup and    *)
(* the proof as they were, the verification does not return true: it       *)
(* returns false.                                                          *)
(***************************************************************************)
C2_TamperDetected ==
    (tampered = "buffer" /\ verified # "none") => verified \in {"false", "error"}

C2_Witness ==
    /\ tampered = "buffer"
    /\ verified = "false"
    /\ \E b \in Blocks :
        /\ get_pixel(out_file, b[1], b[2])[4] = 0
        /\ \A c \in Blocks \ {b} :
            get_pixel(out_file, c[1], c[2]) = get_pixel(Unwrap(test_png), c[1], c[2])

(***************************************************************************)
(* C3 as stated. Position sensitivity: the proof made with selection index *)
(* p fails verification against the public inputs of the thumbnail of      *)
(* every other selection index.                                            *)
(***************************************************************************)
C3_Original ==
    pc = "IoBuilt" => \A p2 \in (0 .. n * n - 1) \ {p} : ~CrossVerify(p2)

(***************************************************************************)
(* C3 amended. The proof made with selection index p fails verification    *)
(* against the thumbnail of another selection index p2 exactly when some   *)
(* block's source pixels at p and p2 differ; when they agree in every      *)
(* block it verifies. (The thumbnail of p itself is the one the run built.)*)
(***************************************************************************)
C3_PositionSensitive ==
    pc = "IoBuilt" =>
        /\ OutputGroup(HonestThumbnail(p)) = output_fr
        /\ \A p2 \in (0 .. n * n - 1) \ {p} : CrossVerify(p2) <=> SamePixels(p, p2)

C3_Witness ==
    /\ pc = "IoBuilt"
    /\ BlockCount > 1
    /\ \E p2 \in (0 .. n * n - 1) \ {p} : ~CrossVerify(p2) /\ ~SamePixels(p, p2)
    /\ \E p2 \in (0 .. n * n - 1) \ {p} : CrossVerify(p2)

\* the output group re-encoded from a thumbnail image, in block order
EncodeAll(buf) ==
    [k \in 1 .. BlockCount |->
        Encode(get_pixel(buf, (k - 1) \div new_y, (k - 1) % new_y))]

(***************************************************************************)
(* C4 as stated. A verification result of false does not abort the run:    *)
(* main goes on to its normal end.                                         *)
(***************************************************************************)
C4_Original == verified = "false" => pc \in {"Verified", "done"}

(***************************************************************************)
(* C4 amended. A verification result of false aborts the run, as a backend *)
(* error does: the assertion fails and the timing report is not reached;   *)
(* main reaches its normal end only when the verification returned true.   *)
(***************************************************************************)
C4_FalseIsFatal ==
    /\ verified = "false" => (pc = "aborted" /\ err = "AssertionFailed")
    /\ verified = "error" => (pc = "aborted" /\ err = "VerificationError")
    /\ pc \in {"Verified", "done"} => verified = "true"

C4_Witness == verified = "false" /\ pc = "aborted" /\ ~Entered("Verified")

(***************************************************************************)
(* C6 as stated. The output group handed to the verification is the        *)
(* re-encoding of the pixels of the thumbnail image saved to storage.      *)
(***************************************************************************)
C6_Original == io # <<>> => io[2] = EncodeAll(Unwrap(test_png))

(***************************************************************************)
(* C6 amended. The output group handed to the verification is the          *)
(* re-encoding of the pixels of the in-memory thumbnail buffer out_file    *)
(* (the buffer that was saved); the saved file is not read back, so a      *)
(* difference between the saved image and the buffer leaves the public     *)
(* inputs as the buffer gives them.                                        *)
(***************************************************************************)
C6_IoFromBuffer ==
    io # <<>> => (io[2] = EncodeAll(out_file) /\ io[1] = [k \in 1 .. BlockCount |-> FrOne])

C6_Witness ==
    /\ io # <<>>
    /\ tampered = "storage"
    /\ EncodeAll(Unwrap(test_png)) # EncodeAll(out_file)
    /\ verified = "true"

(***************************************************************************)
(* C5. Ordering invariant: the prover loop visits every block exactly      *)
(* once; the k-th visit (k = 0, 1, ..) has instance index k, which is      *)
(* m_x * new_y + m_y; and entry k of the output group is the encoding of   *)
(* the thumbnail pixel of the block whose instance index is k.             *)
(***************************************************************************)
C5_Ordering ==
    /\ \A k \in 1 .. Len(visited) :
        /\ visited[k][3] = k - 1
        /\ <<visited[k][1], visited[k][2]>> \in Blocks
        /\ \A j \in 1 .. k - 1 : <<visited[j][1], visited[j][2]>> # <<visited[k][1], visited[k][2]>>
    /\ Entered("ProverStatementBuilt") => Len(visited) = BlockCount
    /\ \A k \in 1 .. Len(output_fr) :
        output_fr[k] = Encode(get_pixel(out_file, visited[k][1], visited[k][2]))
    /\ io # <<>> =>
        /\ Len(io[2]) = BlockCount
        /\ \A k \in 1 .. BlockCount :
            /\ io[2][k] = Encode(get_pixel(out_file, visited[k][1], visited[k][2]))
            /\ io[2][k] = ProverOut(visited[k][3] + 1)

C5_Witness ==
    /\ pc = "done"
    /\ new_x = 2 /\ new_y = 1 /\ demo.height > n
    /\ io[2][1] # io[2][2]

(***************************************************************************)
(* C7. Stage ordering: the stages are entered in the one order Loaded,     *)
(* SetupDone, ProverStatementBuilt, Proved, (thumbnail saved),             *)
(* VerifierStatementBuilt, Verified, each at most once; the thumbnail is   *)
(* in storage only after the proof exists and before the verifier          *)
(* statement is built; and an error ends the run at once: the step that    *)
(* raises it enters no stage and no step follows it.                       *)
(***************************************************************************)
C7_StageInv ==
    /\ IsPrefix(trace, Stages)
    /\ (err # "none") <=> (pc = "aborted")
    /\ (proof # None) <=> Entered("Proved")
    /\ (test_png # None) <=> Entered("Saved")
    /\ Entered("VerifierStatementBuilt") <=> (verifier_pa # VerifyAssignment_default)
    /\ pc \notin {"start", "aborted"} =>
        trace[Len(trace)] = CASE pc = "ProverLoop" -> "SetupDone"
                              [] pc \in {"IoLoop", "IoBuilt"} -> "VerifierStatementBuilt"
                              [] pc = "done" -> "Verified"
                              [] OTHER -> pc

C7_StageStep ==
    /\ IsPrefix(trace, trace')
    /\ pc = "aborted" => UNCHANGED vars
    /\ (err = "none" /\ err' # "none") =>
        (pc' = "aborted" /\ trace' = trace /\ proof' = proof /\ test_png' = test_png
            /\ verifier_pa' = verifier_pa)

C7_StageOrder == [](C7_StageInv) /\ [][C7_StageStep]_vars

C7_Witness == pc = "done" /\ trace = Stages /\ test_png # None /\ err = "none"

(***************************************************************************)
(* C8. Thumbnail selection rule: once the prover statement is built, the   *)
(* thumbnail buffer has one pixel per block, and pixel (m_x, m_y) is the   *)
(* source pixel at the block-local position (i, j) with i * n + j = p of   *)
(* block (m_x, m_y), which is also the pixel whose encoding is the witness *)
(* of slot p; the public input vector has 2 groups, the constant-one group *)
(* and the output group, of one entry per block each (4 and 4 for a 20x20  *)
(* source with n = 10).                                                    *)
(***************************************************************************)
C8_SelectionRule ==
    /\ \A k \in 1 .. Len(visited) :
        LET mx == visited[k][1]
            my == visited[k][2]
        IN  \E i, j \in 0 .. n - 1 :
                /\ i * n + j = p
                /\ (tampered = "none" =>
                        get_pixel(out_file, mx, my) = BlockLocal(mx, my, i, j))
                /\ ProverInp(p, k) = Encode(BlockLocal(mx, my, i, j))
    /\ Entered("ProverStatementBuilt") =>
        /\ out_file.width = demo.width \div n
        /\ out_file.height = demo.height \div n
        /\ \A b \in Blocks : \E k \in 1 .. Len(visited) : <<visited[k][1], visited[k][2]>> = b
    /\ io # <<>> =>
        /\ Len(io) = 2
        /\ Len(io[1]) = BlockCount /\ \A k \in 1 .. BlockCount : io[1][k] = FrOne
        /\ Len(io[2]) = BlockCount
        /\ (demo.width = 20 /\ demo.height = 20) => (Len(io[1]) = 4 /\ Len(io[2]) = 4)

C8_Witness ==
    /\ demo.width = 20 /\ demo.height = 20 /\ p = 5
    /\ pc = "done"
    /\ get_pixel(out_file, 0, 0) = get_pixel(demo, 0, 5)
    /\ get_pixel(demo, 0, 5) # get_pixel(demo, 5, 0)
    /\ Len(io) = 2 /\ Len(io[1]) = 4 /\ Len(io[2]) = 4

(***************************************************************************)
(* C9. Over the construction of the prover statement exactly one           *)
(* constraint is emitted: by the call of instance index 0, by no later     *)
(* call, of the shape inps[p] * one == out on the variables that call      *)
(* allocated (the witness of slot p, the constant one, the public output). *)
(***************************************************************************)
C9_OneConstraint ==
    /\ Len(prover_pa.constraints) = Len(emitted)
    /\ \A e \in 1 .. Len(emitted) : emitted[e] = 0
    /\ Len(visited) >= 1 =>
        /\ prover_pa.constraints = <<[a |-> <<"Aux", p>>, b |-> <<"Input", 0>>, c |-> <<"Input", 1>>]>>
        /\ prover_pa.num_aux > p
        /\ prover_pa.num_inputs = 2
        /\ \A k \in 1 .. Len(visited) :
            /\ Value(prover_pa, <<"Input", 0>>, k) = FrOne
            /\ Value(prover_pa, <<"Aux", p>>, k)
                  = BlockPixels(Unwrap(img), visited[k][1], visited[k][2])[p + 1][1]
            /\ Value(prover_pa, <<"Input", 1>>, k) = Value(prover_pa, <<"Aux", p>>, k)

C9_Witness ==
    /\ Entered("ProverStatementBuilt")
    /\ Len(visited) = 4
    /\ Len(prover_pa.constraints) = 1
    /\ emitted = <<0>>

(***************************************************************************)
(* C10. Structural parity: what the prover statement registers for         *)
(* instance 0 and what the verifier statement registers are the same in    *)
(* number, kind and order: the constant-one public variable, n * n witness *)
(* variables, the public output variable, one constraint; and building the *)
(* verifier statement with every value absent never fails with             *)
(* AssignmentMissing.                                                      *)
(***************************************************************************)
Registration ==
    [k \in 1 .. n * n + 3 |->
        IF k = 1 THEN "input"
        ELSE IF k <= n * n + 1 THEN "aux"
        ELSE IF k = n * n + 2 THEN "input"
        ELSE "constraint"]

C10_Parity ==
    /\ err # "AssignmentMissing"
    /\ Len(visited) >= 1 => prover_pa.log = Registration
    /\ pc \in {"IoLoop", "IoBuilt", "Verified", "done"} => Entered("VerifierStatementBuilt")
    /\ Entered("VerifierStatementBuilt") =>
        /\ verifier_pa.log = Registration
        /\ verifier_pa.log = prover_pa.log
        /\ verifier_pa.num_inputs = prover_pa.num_inputs
        /\ verifier_pa.num_aux = prover_pa.num_aux /\ verifier_pa.num_aux = n * n
        /\ verifier_pa.constraints = prover_pa.constraints
        /\ verifier_pa.input_assignment = <<>> /\ verifier_pa.aux_assignment = <<>>

C10_Witness ==
    /\ Entered("VerifierStatementBuilt")
    /\ BlockCount = 4
    /\ verifier_pa.num_aux = 100 /\ Len(verifier_pa.constraints) = 1

====
